---- MODULE Spec2Model ----
(***************************************************************************)
(* Model of connecticut_real_estate_dashboard.py: RealEstateAPI            *)
(* (load_data, get_years, get_towns, get_residential_types, filter_data),  *)
(* the module-level initialisation (global_min / global_max, the widgets), *)
(* the two callbacks (_reset_filters, _update_sale_slider) and make_sankey.*)
(*                                                                         *)
(* Representation.                                                         *)
(*  - A csv cell is a record with a field kind: "NaN" (empty cell),        *)
(*    "junk" (text that is not a number), "num" (a number, field units),   *)
(*    and for Location "POINT" (text of the shape POINT (<lon> <lat>)) or  *)
(*    "other" (any other text).                                            *)
(*  - Sale amounts and the csv text of list years are counted in units of  *)
(*    1/Scale, so that amounts that are not whole numbers exist; the       *)
(*    slider and global_min / global_max are Python ints (whole units).    *)
(*  - Strings of the Town and Residential Type columns are TLA+ strings,   *)
(*    ordered as Python orders them by their position in Labels; the       *)
(*    missing value of these columns is NaN.                               *)
(*  - lon / lat are float cells: <<>> is NaN and <<v>> the float v/10.     *)
(***************************************************************************)
EXTENDS Integers, Sequences, FiniteSets, TLC

VARIABLES csv,         \* the rows of the input file
          pc,          \* "start", "loaded", "serving" or "raised"
          err,         \* the exception that ended the start-up, if any
          df,          \* api.df
          global_min, global_max,
          year,        \* year_select.value
          towns,       \* town_select.value
          resi,        \* resi_select.value
          start, end,  \* sale_slider.start, sale_slider.end
          value,       \* sale_slider.value
          event,       \* the last widget event handled (history)
          ret          \* the last call of filter_data / make_sankey

vars == <<csv, pc, err, df, global_min, global_max,
          year, towns, resi, start, end, value, event, ret>>

(***************************************************************************)
(* Bounds of the model                                                     *)
(***************************************************************************)
Scale == 2          \* an amount a stands for a/Scale
MaxAmount == 5      \* largest sale amount, in 1/Scale units
MaxYear == 2        \* list years are 1..MaxYear
MaxRows == 2        \* rows of the input file
MaxCoord == 1       \* largest whole part of a coordinate

(***************************************************************************)
(* Values                                                                  *)
(***************************************************************************)
NaN == "NaN"                    \* missing value of a string column
None == 0                       \* Python's None as the year argument
FloatNaN == <<>>                \* missing value of a float cell
Unknown == "Unknown"            \* the label make_sankey gives a missing type
Labels == <<"Condo", "Derby", "Unknown">>   \* in lexicographic order
Rank(s) == CHOOSE i \in 1..Len(Labels) : Labels[i] = s

Range(s) == {s[i] : i \in 1..Len(s)}
Min(S) == CHOOSE x \in S : \A y \in S : x <= y
Max(S) == CHOOSE x \in S : \A y \in S : x >= y

\* Python's int() of a float: truncation toward zero.
int(a) == IF a >= 0 THEN a \div Scale ELSE -((-a) \div Scale)

\* sorted() of a set of integers / of strings
RECURSIVE sorted_int(_)
sorted_int(S) == IF S = {} THEN <<>>
                 ELSE LET m == Min(S) IN <<m>> \o sorted_int(S \ {m})

RECURSIVE sorted_str(_)
sorted_str(S) == IF S = {} THEN <<>>
                 ELSE LET m == CHOOSE x \in S : \A y \in S : Rank(x) <= Rank(y)
                      IN <<m>> \o sorted_str(S \ {m})

(***************************************************************************)
(* RealEstateAPI.load_data                                                 *)
(***************************************************************************)
\* The regular expression POINT \((-?\d+\.\d+) (-?\d+\.\d+)\): both numbers
\* need a decimal point and digits after it.
regex_match(loc) == /\ loc.kind = "POINT"
                    /\ Len(loc.lon.frac) > 0
                    /\ Len(loc.lat.frac) > 0

\* astype(float) of a captured group; tenths.
float(num) == LET m == num.whole * 10 + num.frac[1]
              IN IF num.neg THEN -m ELSE m

\* .str.extract(...).astype(float): the two groups, NaN where no match.
extract(loc) == IF regex_match(loc)
                THEN <<<<float(loc.lon)>>, <<float(loc.lat)>>>>
                ELSE <<FloatNaN, FloatNaN>>

\* pd.to_numeric(errors='coerce') of one cell: the number, or NaN.
to_numeric(cell) == IF cell.kind = "num" THEN <<cell.units>> ELSE FloatNaN

\* The .str accessor raises AttributeError on a column that is not of
\* strings: read_csv gives a column of only empty cells the dtype float64.
str_accessor_raises(t) == /\ Len(t) > 0
                          /\ \A i \in 1..Len(t) : t[i].Location.kind = "NaN"

\* The table load_data stores when it does not raise.
loaded_table(t) ==
    LET d1 == SelectSeq(t, LAMBDA r : r.Location.kind # "NaN")
        d2 == [i \in 1..Len(d1) |->
                 [Location |-> d1[i].Location,
                  lon |-> extract(d1[i].Location)[1],
                  lat |-> extract(d1[i].Location)[2],
                  Town |-> d1[i].Town,
                  ResidentialType |-> d1[i].ResidentialType,
                  SaleAmount |-> to_numeric(d1[i].SaleAmount),
                  ListYear |-> int(to_numeric(d1[i].ListYear)[1])]]
        d3 == SelectSeq(d2, LAMBDA r : r.SaleAmount # FloatNaN)
    IN [i \in 1..Len(d3) |-> [d3[i] EXCEPT !.SaleAmount = @[1]]]

\* astype(int) raises on a column that holds a NaN.
astype_int_raises(t) ==
    \E i \in 1..Len(t) : /\ t[i].Location.kind # "NaN"
                         /\ to_numeric(t[i].ListYear) = FloatNaN

load_data ==
    /\ pc = "start"
    /\ IF str_accessor_raises(csv)
       THEN /\ pc' = "raised" /\ err' = "AttributeError" /\ df' = df
       ELSE IF astype_int_raises(csv)
       THEN /\ pc' = "raised" /\ err' = "IntCastingNaNError" /\ df' = df
       ELSE /\ pc' = "loaded" /\ err' = err /\ df' = loaded_table(csv)
    /\ UNCHANGED <<csv, global_min, global_max, year, towns, resi,
                   start, end, value, event, ret>>

(***************************************************************************)
(* RealEstateAPI getters and filter_data                                   *)
(***************************************************************************)
get_years(t) == sorted_int({t[i].ListYear : i \in 1..Len(t)})
get_towns(t) == sorted_str({t[i].Town : i \in 1..Len(t)} \ {NaN})
get_residential_types(t) ==
    sorted_str({t[i].ResidentialType : i \in 1..Len(t)} \ {NaN})

\* filter_data with the upper end of the amount range excluded.
filter_data_strict(t, yr, tw, rs, amount) ==
    LET d1 == IF yr # None
              THEN SelectSeq(t, LAMBDA r : r.ListYear = yr) ELSE t
        d2 == IF tw # {}
              THEN SelectSeq(d1, LAMBDA r : r.Town \in tw) ELSE d1
        d3 == IF rs # {}
              THEN SelectSeq(d2, LAMBDA r : r.ResidentialType \in rs) ELSE d2
    IN SelectSeq(d3, LAMBDA r : /\ r.SaleAmount >= amount[1] * Scale
                                /\ r.SaleAmount < amount[2] * Scale)

filter_data(t, yr, tw, rs, amount) ==
    LET d1 == IF yr # None
              THEN SelectSeq(t, LAMBDA r : r.ListYear = yr) ELSE t
        d2 == IF tw # {}
              THEN SelectSeq(d1, LAMBDA r : r.Town \in tw) ELSE d1
        d3 == IF rs # {}
              THEN SelectSeq(d2, LAMBDA r : r.ResidentialType \in rs) ELSE d2
        low == amount[1]
        high == amount[2]
    IN SelectSeq(d3, LAMBDA r : /\ r.SaleAmount >= low * Scale
                                /\ r.SaleAmount <= high * Scale)

(***************************************************************************)
(* Module initialisation: global_min / global_max and the widgets          *)
(***************************************************************************)
Amounts(t) == {t[i].SaleAmount : i \in 1..Len(t)}

module_init ==
    /\ pc = "loaded"
    /\ IF df = <<>>
       THEN \* int(nan) raises ValueError
            /\ pc' = "raised" /\ err' = "ValueError"
            /\ UNCHANGED <<global_min, global_max, year, towns, resi,
                           start, end, value>>
       ELSE /\ pc' = "serving" /\ err' = err
            /\ global_min' = int(Min(Amounts(df)))
            /\ global_max' = int(Max(Amounts(df)))
            /\ year' = get_years(df)[1]
            /\ towns' = {}
            /\ resi' = {}
            /\ start' = global_min'
            /\ end' = global_max'
            /\ value' = <<global_min', global_max'>>
    /\ UNCHANGED <<csv, df, event, ret>>

(***************************************************************************)
(* make_sankey                                                             *)
(***************************************************************************)
\* Lexicographic order of the (Town, Residential Type) keys, as groupby
\* sorts its groups.
KeyLess(a, b) == \/ Rank(a[1]) < Rank(b[1])
                 \/ /\ a[1] = b[1]
                    /\ Rank(a[2]) < Rank(b[2])

RECURSIVE sorted_keys(_)
sorted_keys(S) == IF S = {} THEN <<>>
                  ELSE LET m == CHOOSE x \in S :
                                    \A y \in S \ {x} : KeyLess(x, y)
                       IN <<m>> \o sorted_keys(S \ {m})

\* fillna('Unknown') of the Residential Type column.
fillna(t) == [i \in 1..Len(t) |->
                [t[i] EXCEPT !.ResidentialType =
                                 IF @ = NaN THEN Unknown ELSE @]]

\* groupby(['Town','Residential Type']).size().reset_index(name='count'):
\* one row per key in key order; rows whose Town is missing form no group.
groupby_size(t) ==
    LET Key(r) == <<r.Town, r.ResidentialType>>
        keys == {Key(t[i]) : i \in {j \in 1..Len(t) : t[j].Town # NaN}}
        ks == sorted_keys(keys)
    IN [g \in 1..Len(ks) |->
          [Town |-> ks[g][1],
           ResidentialType |-> ks[g][2],
           count |-> Cardinality({i \in 1..Len(t) : Key(t[i]) = ks[g]})]]

\* {lab: i for i, lab in enumerate(labels)}: the last position of a label.
index_map(labels, lab) ==
    Max({i \in 0..(Len(labels) - 1) : labels[i + 1] = lab})

make_sankey(t, yr, tw, rs, amount) ==
    LET d == fillna(filter_data(t, yr, tw, rs, amount))
        grp == groupby_size(d)
        towns_list == sorted_str({grp[g].Town : g \in 1..Len(grp)})
        resi_list == sorted_str({grp[g].ResidentialType : g \in 1..Len(grp)})
        labels == towns_list \o resi_list
    IN [label |-> labels,
        source |-> [g \in 1..Len(grp) |-> index_map(labels, grp[g].Town)],
        target |-> [g \in 1..Len(grp) |->
                      index_map(labels, grp[g].ResidentialType)],
        value |-> [g \in 1..Len(grp) |-> grp[g].count]]

(***************************************************************************)
(* Calls of the query interface.  filter_data and make_sankey only read    *)
(* api.df, so a result does not depend on the calls made before it: a      *)
(* behaviour makes one call, with any arguments.                           *)
(***************************************************************************)
ArgYears == {None} \cup (1..MaxYear)
ArgTowns == SUBSET {"Derby", "Unknown"}
ArgTypes == SUBSET {"Condo", "Unknown"}
ArgBounds == 0..2

call_filter_data ==
    /\ pc = "serving" /\ ret.fn = "none"
    /\ \E yr \in ArgYears, tw \in ArgTowns, rs \in ArgTypes,
          low \in ArgBounds, high \in ArgBounds :
          ret' = [fn |-> "filter_data", year |-> yr, towns |-> tw,
                  resi |-> rs, amount |-> <<low, high>>,
                  out |-> filter_data(df, yr, tw, rs, <<low, high>>)]
    /\ UNCHANGED <<csv, pc, err, df, global_min, global_max,
                   year, towns, resi, start, end, value, event>>

call_make_sankey ==
    /\ pc = "serving" /\ ret.fn = "none"
    /\ \E yr \in ArgYears, tw \in ArgTowns, rs \in ArgTypes,
          low \in ArgBounds, high \in ArgBounds :
          ret' = [fn |-> "make_sankey", year |-> yr, towns |-> tw,
                  resi |-> rs, amount |-> <<low, high>>,
                  out |-> make_sankey(df, yr, tw, rs, <<low, high>>)]
    /\ UNCHANGED <<csv, pc, err, df, global_min, global_max,
                   year, towns, resi, start, end, value, event>>

(***************************************************************************)
(* Widget callbacks                                                        *)
(***************************************************************************)
Widgets == [year |-> year, towns |-> towns, resi |-> resi,
            start |-> start, end |-> end, value |-> value]

SetWidgets(w) == /\ year' = w.year /\ towns' = w.towns /\ resi' = w.resi
                 /\ start' = w.start /\ end' = w.end /\ value' = w.value

\* The year watcher reading event.old where the code reads event.new.
_update_sale_slider_old_year(w, ev) ==
    LET yr == ev.old
        df_yr == filter_data(df, yr, {}, {}, <<global_min, global_max>>)
    IN IF df_yr # <<>>
       THEN LET lo == int(Min(Amounts(df_yr)))
                hi == int(Max(Amounts(df_yr)))
            IN [w EXCEPT !.start = lo, !.end = hi, !.value = <<lo, hi>>]
       ELSE w

\* w: the widgets when the watcher runs; ev: the change of year_select.value.
_update_sale_slider(w, ev) ==
    LET yr == ev.new
        df_yr == filter_data(df, yr, {}, {}, <<global_min, global_max>>)
    IN IF df_yr # <<>>
       THEN LET lo == int(Min(Amounts(df_yr)))
                hi == int(Max(Amounts(df_yr)))
            IN [w EXCEPT !.start = lo, !.end = hi, !.value = <<lo, hi>>]
       ELSE w

\* year_select.value = y: the watcher runs, synchronously, when the value
\* changes.
set_year(w, y) == IF y = w.year THEN w
                  ELSE _update_sale_slider([w EXCEPT !.year = y],
                                           [old |-> w.year, new |-> y])

\* The reset handler with the year restored last, after the slider.
_reset_filters_year_last(w) ==
    set_year([w EXCEPT !.towns = {}, !.resi = {},
                       !.start = global_min, !.end = global_max,
                       !.value = <<global_min, global_max>>],
             get_years(df)[1])

_reset_filters(w) ==
    LET w1 == set_year(w, get_years(df)[1])
    IN [w1 EXCEPT !.towns = {}, !.resi = {},
                  !.start = global_min, !.end = global_max,
                  !.value = <<global_min, global_max>>]

\* The user picks another year of the Select's options.
year_selected ==
    /\ pc = "serving"
    /\ \E y \in Range(get_years(df)) \ {year} :
          /\ SetWidgets(set_year(Widgets, y))
          /\ event' = [name |-> "year", old |-> year, new |-> y]
    /\ UNCHANGED <<csv, pc, err, df, global_min, global_max, ret>>

town_selected ==
    /\ pc = "serving"
    /\ \E s \in SUBSET Range(get_towns(df)) \ {towns} :
          /\ towns' = s
          /\ event' = [name |-> "town", old |-> year, new |-> year]
    /\ UNCHANGED <<csv, pc, err, df, global_min, global_max,
                   year, resi, start, end, value, ret>>

resi_selected ==
    /\ pc = "serving"
    /\ \E s \in SUBSET Range(get_residential_types(df)) \ {resi} :
          /\ resi' = s
          /\ event' = [name |-> "resi", old |-> year, new |-> year]
    /\ UNCHANGED <<csv, pc, err, df, global_min, global_max,
                   year, towns, start, end, value, ret>>

\* The user drags a handle of the RangeSlider.
slider_moved ==
    /\ pc = "serving"
    /\ \E lo \in start..end, hi \in start..end :
          /\ lo <= hi
          /\ <<lo, hi>> # value
          /\ value' = <<lo, hi>>
          /\ event' = [name |-> "slider", old |-> year, new |-> year]
    /\ UNCHANGED <<csv, pc, err, df, global_min, global_max,
                   year, towns, resi, start, end, ret>>

reset_clicked ==
    /\ pc = "serving"
    /\ SetWidgets(_reset_filters(Widgets))
    /\ event' = [name |-> "reset", old |-> year, new |-> year']
    /\ UNCHANGED <<csv, pc, err, df, global_min, global_max, ret>>

(***************************************************************************)
(* Input files                                                             *)
(***************************************************************************)
NumCell(S) == [kind : {"num"}, units : S]
EmptyCell == [kind |-> "NaN"]
JunkCell == [kind |-> "junk"]
Numerals == [neg : BOOLEAN, whole : {MaxCoord}, frac : {<<>>, <<3>>}]
GoodPoint == [kind |-> "POINT",
              lon |-> [neg |-> TRUE, whole |-> MaxCoord, frac |-> <<3>>],
              lat |-> [neg |-> FALSE, whole |-> MaxCoord, frac |-> <<3>>]]
Points == [kind : {"POINT"}, lon : Numerals, lat : {GoodPoint.lat}]
WholeYears == {Scale * y : y \in 1..MaxYear}
Tables(Rows) == UNION {[1..n -> Rows] : n \in 0..MaxRows}

\* Files with malformed cells.
DirtyRows == [Location : {EmptyCell, [kind |-> "other"]} \cup Points,
              SaleAmount : {EmptyCell, JunkCell} \cup NumCell({Scale, MaxAmount}),
              ListYear : {JunkCell} \cup NumCell(Scale..(Scale * MaxYear)),
              Town : {"Derby"},
              ResidentialType : {NaN}]

\* Well-formed files over a few towns and residential types, with amounts
\* below one, one, and between one and two.
QueryRows == [Location : {GoodPoint},
              SaleAmount : NumCell({1, Scale, Scale + 1}),
              ListYear : NumCell(WholeYears),
              Town : {NaN, "Derby", "Unknown"},
              ResidentialType : {NaN, "Condo", "Unknown"}]

\* Well-formed files of one town and one residential type.
WidgetRows == [Location : {GoodPoint},
               SaleAmount : NumCell(1..MaxAmount),
               ListYear : NumCell(WholeYears),
               Town : {"Derby"},
               ResidentialType : {"Condo"}]

InitState ==
    /\ pc = "start" /\ err = "" /\ df = <<>>
    /\ global_min = 0 /\ global_max = 0
    /\ year = None /\ towns = {} /\ resi = {}
    /\ start = 0 /\ end = 0 /\ value = <<0, 0>>
    /\ event = [name |-> "none"]
    /\ ret = [fn |-> "none"]

\* Start-up on any file.
InitLoad == csv \in Tables(DirtyRows) /\ InitState
NextLoad == load_data \/ module_init
SpecLoad == InitLoad /\ [][NextLoad]_vars

\* Start-up, then calls of filter_data and make_sankey.
InitQuery == csv \in Tables(QueryRows) /\ InitState
NextQuery == load_data \/ module_init \/ call_filter_data \/ call_make_sankey
SpecQuery == InitQuery /\ [][NextQuery]_vars

\* Start-up, then the user's interactions with the widgets.
Init == csv \in Tables(WidgetRows) /\ InitState
Next == \/ load_data \/ module_init
        \/ year_selected \/ town_selected \/ resi_selected
        \/ slider_moved \/ reset_clicked
Spec == Init /\ [][Next]_vars

(***************************************************************************)
(* Properties                                                              *)
(***************************************************************************)
RECURSIVE SumSeq(_)
SumSeq(q) == IF q = <<>> THEN 0 ELSE Head(q) + SumSeq(Tail(q))

\* Row r passes the filter of the recorded call c.
Matches(r, c) ==
    /\ (c.year = None \/ r.ListYear = c.year)
    /\ (c.towns = {} \/ r.Town \in c.towns)
    /\ (c.resi = {} \/ r.ResidentialType \in c.resi)
    /\ c.amount[1] * Scale <= r.SaleAmount
    /\ r.SaleAmount <= c.amount[2] * Scale

\* C1: filter_data returns exactly the loaded rows that match the year,
\* the towns, the residential types and the inclusive amount range, in load
\* order; a row without residential type is returned when no type is
\* selected, and low > high gives the empty table.
C1_FilterReturnsMatchingRowsInOrder ==
    ret.fn = "filter_data" =>
        LET idx == sorted_int({i \in 1..Len(df) : Matches(df[i], ret)})
        IN /\ Len(ret.out) = Len(idx)
           /\ \A k \in 1..Len(idx) : ret.out[k] = df[idx[k]]
           /\ (ret.amount[1] > ret.amount[2] => ret.out = <<>>)
           /\ (ret.resi = {} =>
                 \A i \in 1..Len(df) :
                     (/\ df[i].ResidentialType = NaN
                      /\ Matches(df[i], [ret EXCEPT !.resi = {}]))
                     => \E k \in 1..Len(ret.out) : ret.out[k] = df[i])

\* A call with a year and a town that returns, in load order, two different
\* rows, the first without residential type.
C1_Witness ==
    /\ ret.fn = "filter_data"
    /\ ret.year # None /\ ret.towns # {} /\ ret.resi = {}
    /\ Len(ret.out) = 2
    /\ ret.out[1].ResidentialType = NaN
    /\ ret.out[1] # ret.out[2]

\* C2: filter_data(None, [], [], (global_min, global_max)) returns every
\* loaded row, in load order.
C2_GlobalRangeReturnsEveryRow ==
    (/\ ret.fn = "filter_data"
     /\ ret.year = None /\ ret.towns = {} /\ ret.resi = {}
     /\ ret.amount = <<global_min, global_max>>)
    => ret.out = df

FullyValid(r) == /\ regex_match(r.Location)
                 /\ r.SaleAmount.kind = "num"
                 /\ r.ListYear.kind = "num"

\* C3: after load_data the table holds exactly the input rows whose Location
\* matches POINT (<lon> <lat>) and whose amount and year parse, with lon and
\* lat the parsed numbers; no loaded row has a missing lon or lat.
C3_LoadKeepsExactlyMatchingLocations ==
    pc = "loaded" =>
        LET keep == SelectSeq(csv, FullyValid)
        IN /\ Len(df) = Len(keep)
           /\ \A i \in 1..Len(df) :
                 /\ i <= Len(keep)
                 /\ df[i].Location = keep[i].Location
                 /\ df[i].lon = <<float(keep[i].Location.lon)>>
                 /\ df[i].lat = <<float(keep[i].Location.lat)>>

\* C4: on a file with a fully valid row, load_data does not raise when
\* other rows have a Sale Amount or List Year that is missing or no number,
\* and it keeps every fully valid row.
C4_LoadDropsBadNumbersWithoutRaising ==
    (pc # "start" /\ \E i \in 1..Len(csv) : FullyValid(csv[i])) =>
        /\ err \notin {"AttributeError", "IntCastingNaNError"}
        /\ Len(SelectSeq(df, LAMBDA r : regex_match(r.Location)))
             = Len(SelectSeq(csv, FullyValid))

\* C9: load_data never returns normally with an empty table.
C9_LoadNeverReturnsEmptyTable == pc = "loaded" => df # <<>>

\* The rows of the recorded call's filter result.
CallRows == filter_data(df, ret.year, ret.towns, ret.resi, ret.amount)

\* C5: the link values of make_sankey sum to the number of rows filter_data
\* returns for the same arguments, every node is an end of some link, and an
\* empty filter result gives no nodes and no links.
C5_SankeyCountsEveryRow ==
    ret.fn = "make_sankey" =>
        LET o == ret.out
            ends == Range(o.source) \cup Range(o.target)
        IN /\ SumSeq(o.value) = Len(CallRows)
           /\ \A n \in 0..(Len(o.label) - 1) : n \in ends
           /\ (CallRows = <<>> => o.label = <<>> /\ o.value = <<>>)

\* Position (from 0) of x in the sequence q.
Pos(q, x) == (CHOOSE i \in 1..Len(q) : q[i] = x) - 1

\* C6: the nodes are the sorted towns followed by the sorted residential
\* types (a missing type reads "Unknown"); a link of town t and type k has
\* as source the position of t among the towns and as target the position
\* of k among the types, after the towns, so source < target; the two Derby
\* rows give nodes Derby, Condo, Unknown and links Derby->Condo = 1,
\* Derby->Unknown = 1.
C6_SankeyIndicesAreBipartite ==
    ret.fn = "make_sankey" =>
        LET o == ret.out
            rows == fillna(SelectSeq(CallRows, LAMBDA r : r.Town # NaN))
            T == sorted_str({rows[i].Town : i \in 1..Len(rows)})
            K == sorted_str({rows[i].ResidentialType : i \in 1..Len(rows)})
            n(t, k) == Cardinality({i \in 1..Len(rows) :
                          rows[i].Town = t /\ rows[i].ResidentialType = k})
            links == {<<o.source[g], o.target[g], o.value[g]>> :
                         g \in 1..Len(o.value)}
        IN /\ o.label = T \o K
           /\ links = {<<Pos(T, rows[i].Town),
                         Len(T) + Pos(K, rows[i].ResidentialType),
                         n(rows[i].Town, rows[i].ResidentialType)>> :
                          i \in 1..Len(rows)}
           /\ \A g \in 1..Len(o.value) : o.source[g] < o.target[g]
           /\ (/\ Len(CallRows) = 2
               /\ CallRows[1].Town = "Derby"
               /\ CallRows[1].ResidentialType = "Condo"
               /\ CallRows[2].Town = "Derby"
               /\ CallRows[2].ResidentialType = NaN)
              => o = [label |-> <<"Derby", "Condo", "Unknown">>,
                      source |-> <<0, 0>>, target |-> <<1, 2>>,
                      value |-> <<1, 1>>]

\* C7: once the reset handler has run, the widgets hold the start-up
\* defaults: the first year, no town, no residential type, and the slider's
\* value and bounds at (global_min, global_max).
C7_ResetRestoresDefaults ==
    event.name = "reset" =>
        /\ year = get_years(df)[1]
        /\ towns = {} /\ resi = {}
        /\ value = <<global_min, global_max>>
        /\ start = global_min /\ end = global_max

\* The (lo, hi) the year watcher computes for year y.
YearRows(y) == filter_data(df, y, {}, {}, <<global_min, global_max>>)
YearBounds(y) == <<int(Min(Amounts(YearRows(y)))),
                   int(Max(Amounts(YearRows(y))))>>

\* A reset that changed the year, so that the year watcher ran within it,
\* and that left bounds other than those the watcher set.
C7_Witness ==
    /\ event.name = "reset" /\ event.old # event.new
    /\ YearRows(year) # <<>>
    /\ <<start, end>> # YearBounds(year)

\* The loaded rows of year y.
RowsOfYear(y) == SelectSeq(df, LAMBDA r : r.ListYear = y)

\* C8: a change of the year to y sets the slider's bounds and value to the
\* (min, max) sale amount of the rows of year y, so that filtering by y with
\* the new value returns all of them; without such rows bounds and value
\* stay; the town and type selections stay in both cases.
C8_YearChangeSetsBoundsToYearRange ==
    [][(event'.name = "year" /\ event' # event) =>
         LET recs == RowsOfYear(year')
         IN /\ towns' = towns /\ resi' = resi
            /\ IF recs # <<>>
               THEN /\ start' * Scale = Min(Amounts(recs))
                    /\ end' * Scale = Max(Amounts(recs))
                    /\ value' = <<start', end'>>
                    /\ filter_data(df, year', {}, {}, value') = recs
               ELSE /\ start' = start /\ end' = end /\ value' = value]_vars

====
